---- MODULE Spec2Model ----
(***************************************************************************)
(* State-machine model of the YaMDb API (api_yamdb): the e-mail code       *)
(* signup / token flow, the user-management endpoints, the permission      *)
(* classes and the category / genre / title / review / comment endpoints.  *)
(* One action per request handler; the database tables are the variables.  *)
(***************************************************************************)
EXTENDS Integers, Sequences, FiniteSets, TLC

VARIABLES
    users,      \* table User: uid -> row, DOMAIN users = the rows that exist
    nextUid,    \* next primary key of table User
    tokens,     \* uids for which an access token is in circulation
    refused,    \* history: uids refused a token for a wrong code after one was issued
    signedUp,   \* history: uids whose confirmation_code was written by signup
    categories, \* table Category: the slugs that exist
    genres,     \* table Genre: the slugs that exist
    titles,     \* table Title: id -> row
    nextTitle,  \* next primary key of table Title
    reviews,    \* table Review: id -> row
    nextReview, \* next primary key of table Review
    comments,   \* table Comment: id -> row
    nextComment,\* next primary key of table Comment
    inflight,   \* review create requests that passed validation and have not saved yet
    req,        \* the last request handled
    status      \* the HTTP status of its response

userVars == <<users, nextUid, tokens, refused, signedUp>>
catalogVars == <<categories, genres, titles, nextTitle>>
reviewVars == <<reviews, nextReview, comments, nextComment, inflight>>
contentVars == <<catalogVars, reviewVars>>
vars == <<userVars, contentVars, req, status>>

----------------------------------------------------------------------------
(* Bounds of the model *)

\* primary keys of User handed out in a run
MaxUid == 2
\* characters of a generated confirmation code (the code draws 9)
CodeLen == 1
\* primary keys of Title, Review and Comment handed out in a run
MaxTitle == 1
MaxReview == 2
MaxComment == 1
\* review create requests between validation and save at one time
MaxInflight == 2

----------------------------------------------------------------------------
(* reviews/models.py: roles *)

USER == "user"
ADMIN == "admin"
MODERATOR == "moderator"
CHOICES == {USER, ADMIN, MODERATOR}

HTTP_200_OK == 200
HTTP_400_BAD_REQUEST == 400

Anonymous == 0

Space == " "
Blank == <<>>

\* a field a payload does not give
Absent == "<absent>"
AbsentName == <<"<absent>">>

\* usernames and confirmation codes are sequences of characters
NameAdm == <<"a", "d", "m">>
NameBob == <<"b", "o", "b">>
NameEve == <<"e", "v", "e">>
NameMe == <<"m", "e">>

Usernames == {NameAdm, NameBob, NameMe}
Emails == {"a@x", "b@x"}

\* string.ascii_uppercase + string.digits, two representatives
CodeAlphabet == {"A", "0"}

RECURSIVE Words(_, _)
Words(S, n) ==
    IF n = 0 THEN {<<>>}
    ELSE {<<c>> \o w : c \in S, w \in Words(S, n - 1)}

\* every value secrets.choice can join into a confirmation code
GeneratedCodes == Words(CodeAlphabet, CodeLen)

\* max_length of TokenObtainPairSerializer.username and .confirmation_code
UsernameMaxLength == 40
CodeMaxLength == 10

RECURSIVE Repeat(_, _)
Repeat(c, n) == IF n = 0 THEN <<>> ELSE <<c>> \o Repeat(c, n - 1)

\* the code strings a client submits: the generated ones, the same padded with
\* white space, one character appended, empty, white space only, too long
SubmittedCodes ==
    GeneratedCodes
    \cup {<<Space>> \o c : c \in GeneratedCodes}
    \cup {c \o <<Space>> : c \in GeneratedCodes}
    \cup {c \o <<"A">> : c \in GeneratedCodes}
    \cup {Blank, <<Space>>, <<Space, Space>>, Repeat("A", CodeMaxLength + 1)}

\* the usernames a client submits with a code: the names, one of them padded
\* with white space, the empty one
SubmittedNames == Usernames \cup {<<Space>> \o NameAdm, Blank}

\* the usernames a client signs up with: the names, one padded with white space
SignupNames == Usernames \cup {NameBob \o <<Space>>}

----------------------------------------------------------------------------
(* The character fields of the serializers *)

IsSpace(c) == c = Space

RECURSIVE LStrip(_)
LStrip(s) == IF s # <<>> /\ IsSpace(Head(s)) THEN LStrip(Tail(s)) ELSE s

RECURSIVE RStrip(_)
RStrip(s) ==
    IF s # <<>> /\ IsSpace(s[Len(s)]) THEN RStrip(SubSeq(s, 1, Len(s) - 1)) ELSE s

\* CharField.to_internal_value: the submitted string with white space trimmed
Strip(s) == RStrip(LStrip(s))

----------------------------------------------------------------------------
(* reviews/models.py: class User *)

is_moderator(u) == u.role = MODERATOR

is_admin(u) == u.role = ADMIN \/ u.is_staff \/ u.is_superuser

is_user(u) == u.role = USER

NewUser(username, email, role, code) ==
    [username |-> username, email |-> email, role |-> role,
     confirmation_code |-> code, is_staff |-> FALSE, is_superuser |-> FALSE]

Uids == DOMAIN users

ByUsername(name) == {u \in Uids : users[u].username = name}

\* unique=True on username and on email, as the serializers' UniqueValidator
\* checks it: no other row than `self` holds the value
UsernameTaken(name, self) == \E u \in Uids \ {self} : users[u].username = name
EmailTaken(email, self) == \E u \in Uids \ {self} : users[u].email = email

----------------------------------------------------------------------------
(* The request record *)

NoData == [username |-> AbsentName, email |-> Absent, role |-> Absent]

\* what is kept of the last request: the endpoint, the method, request.user,
\* the username and the confirmation code a signup or token request submits,
\* the role a user payload submits, the primary key a PATCH or DELETE of a
\* title, review or comment names
Request(op, method, actor, name, role, code) ==
    [op |-> op, method |-> method, actor |-> actor, name |-> name,
     role |-> role, code |-> code, id |-> 0]

ContentRequest(op, method, actor, id) ==
    [Request(op, method, actor, Blank, Absent, Blank) EXCEPT !.id = id]

SAFE_METHODS == {"GET", "HEAD", "OPTIONS"}

\* request.user of an authenticated request: a user a token was issued to
Authenticated == tokens \cap Uids
Actors == Authenticated \cup {Anonymous}

is_authenticated(actor) == actor # Anonymous

\* the response of a request the permission classes refuse
Refused(actor) == IF is_authenticated(actor) THEN 403 ELSE 401

----------------------------------------------------------------------------
(* api/serializers.py: EmailTokenSerializer, api/views.py: APISendCode *)

validate_username(value) == value # NameMe

\* ModelSerializer on the fields email and username: the username trimmed and
\* not blank, the UniqueValidator of each of the two unique columns (there is
\* no instance, so every row counts), then validate_username
EmailTokenSerializer_is_valid(username, email) ==
    /\ Strip(username) # Blank
    /\ ~UsernameTaken(Strip(username), Anonymous)
    /\ ~EmailTaken(email, Anonymous)
    /\ validate_username(Strip(username))

\* POST /auth/signup/; the mail transport is not part of the model
APISendCode_post(username, email, confirmation_code) ==
    /\ req' = Request("signup", "POST", Anonymous, username, Absent, Blank)
    /\ IF EmailTokenSerializer_is_valid(username, email)
       THEN /\ nextUid <= MaxUid
            /\ users' = [u \in Uids \cup {nextUid} |->
                            IF u = nextUid
                            THEN NewUser(Strip(username), email, USER,
                                         confirmation_code)
                            ELSE users[u]]
            /\ nextUid' = nextUid + 1
            /\ signedUp' = signedUp \cup {nextUid}
            /\ status' = HTTP_200_OK
            /\ UNCHANGED <<tokens, refused>>
       ELSE /\ status' = HTTP_400_BAD_REQUEST
            /\ UNCHANGED userVars
    /\ UNCHANGED contentVars

----------------------------------------------------------------------------
(* api/serializers.py: TokenObtainPairSerializer, api/views.py: APISendToken *)

\* CharField(max_length=10, required=True): a blank value is refused
\* (allow_blank is False), a trimmed value longer than max_length is refused
CodeField_allow_blank(raw) == Len(Strip(raw)) <= CodeMaxLength
CodeField_is_valid(raw) ==
    /\ Strip(raw) # Blank
    /\ Len(Strip(raw)) <= CodeMaxLength

\* CharField(max_length=40, required=True) on username
UsernameField_is_valid(raw) ==
    /\ Strip(raw) # Blank
    /\ Len(Strip(raw)) <= UsernameMaxLength

TokenObtainPairSerializer_is_valid(username, code) ==
    /\ UsernameField_is_valid(username)
    /\ CodeField_is_valid(code)

\* the comparison of views.py lines 95-96, on the validated data
CodeMatches_any(validated, stored) == TRUE
CodeMatches(validated, stored) == validated = stored

\* get_object_or_404(User, username=serializer.validated_data['username'])
TokenUsers(username) == ByUsername(Strip(username))

\* the status APISendToken.post answers with
TokenStatus(username, code) ==
    IF ~TokenObtainPairSerializer_is_valid(username, code) THEN HTTP_400_BAD_REQUEST
    ELSE IF TokenUsers(username) = {} THEN 404
    ELSE IF \E u \in TokenUsers(username) :
                CodeMatches(Strip(code), users[u].confirmation_code)
         THEN HTTP_200_OK
         ELSE HTTP_400_BAD_REQUEST

\* what a token request does to the database: nothing
TokenInvalidates(u) == [users EXCEPT ![u].confirmation_code = Blank]
TokenKeeps(u) == users

APISendToken_post(username, code) ==
    /\ req' = Request("token", "POST", Anonymous, username, Absent, code)
    /\ status' = TokenStatus(username, code)
    /\ IF TokenStatus(username, code) = HTTP_200_OK
       THEN \E u \in TokenUsers(username) :
                /\ tokens' = tokens \cup {u}
                /\ users' = TokenKeeps(u)
                /\ UNCHANGED refused
       ELSE /\ refused' =
                  IF TokenObtainPairSerializer_is_valid(username, code)
                  THEN refused \cup (TokenUsers(username) \cap tokens)
                  ELSE refused
            /\ UNCHANGED <<tokens, users>>
    /\ UNCHANGED <<nextUid, signedUp, contentVars>>

----------------------------------------------------------------------------
(* api/serializers.py: UserSerializer *)

\* the payloads a client sends to the user endpoints: each field is absent or
\* given, the username without surrounding white space (first_name, last_name
\* and bio are free text, set as email is, and are left out)
Roles_submitted == CHOICES \cup {"owner"}

\* payloads that name a whole user, as POST and PUT need
FullPayloads ==
    {[NoData EXCEPT !.username = n, !.email = e] : n \in Usernames, e \in Emails}

\* payloads that change one field, or the role and the e-mail address
PartPayloads ==
    {[NoData EXCEPT !.role = r] : r \in Roles_submitted}
    \cup {[NoData EXCEPT !.role = ADMIN, !.email = "b@x"]}
    \cup {[NoData EXCEPT !.email = e] : e \in Emails}
    \cup {[NoData EXCEPT !.username = n] : n \in Usernames}

\* ModelSerializer validation of the fields username, email, role: the
\* UniqueValidator of the two unique columns (the row being updated excepted)
\* and the choices of role; username and email are required unless partial
UserSerializer_is_valid(data, self, partial) ==
    /\ ~partial => data.username # AbsentName /\ data.email # Absent
    /\ data.username # AbsentName => ~UsernameTaken(data.username, self)
    /\ data.email # Absent => ~EmailTaken(data.email, self)
    /\ data.role # Absent => data.role \in CHOICES

\* ModelSerializer.update: every validated field is set on the instance
UserSerializer_update(row, data) ==
    [row EXCEPT
        !.username = IF data.username # AbsentName THEN data.username ELSE @,
        !.email = IF data.email # Absent THEN data.email ELSE @,
        !.role = IF data.role # Absent THEN data.role ELSE @]

\* ModelSerializer.create: the model defaults for what is not given
UserSerializer_create(data) ==
    UserSerializer_update(NewUser(data.username, data.email, USER, Blank), data)

----------------------------------------------------------------------------
(* api/permissions.py *)

IsAuthenticated(actor) == is_authenticated(actor)

IsAdmin_has_permission(actor) == is_admin(users[actor])

\* permission_classes = (IsAuthenticated, IsAdmin)
UserViewSet_permitted_any(actor) == IsAuthenticated(actor)
UserViewSet_permitted(actor) ==
    IsAuthenticated(actor) /\ IsAdmin_has_permission(actor)

IsAdminOrReadOnly_any(method, actor) == TRUE
IsAdminOrReadOnly(method, actor) ==
    \/ method \in SAFE_METHODS
    \/ /\ is_authenticated(actor)
       /\ (users[actor].role = ADMIN \/ users[actor].is_staff)

IsAuthenticatedOrReadOnly(method, actor) ==
    method \in SAFE_METHODS \/ is_authenticated(actor)

IsAuthorOrStaffOrReadOnly_any(method, actor, author) == TRUE
IsAuthorOrStaffOrReadOnly(method, actor, author) ==
    \/ method \in SAFE_METHODS
    \/ /\ is_authenticated(actor)
       /\ \/ actor = author
          \/ users[actor].is_staff
          \/ is_admin(users[actor])
          \/ is_moderator(users[actor])

----------------------------------------------------------------------------
(* on_delete=models.CASCADE of Review.author, Comment.author, Comment.review *)

Restrict(f, S) == [x \in S |-> f[x]]

ReviewsWithoutAuthor(u) == {r \in DOMAIN reviews : reviews[r].author # u}

CommentsKept(keptReviews, goneAuthors) ==
    {c \in DOMAIN comments :
        comments[c].review \in keptReviews /\ comments[c].author \notin goneAuthors}

----------------------------------------------------------------------------
(* api/views.py: UserViewSet *)

\* GET /users/ (name = Blank) and GET /users/{username}/
UserViewSet_read(actor, name) ==
    /\ req' = Request("users", "GET", actor, Blank, Absent, Blank)
    /\ status' = IF ~UserViewSet_permitted(actor) THEN Refused(actor)
                 ELSE IF name # Blank /\ ByUsername(name) = {} THEN 404
                 ELSE HTTP_200_OK
    /\ UNCHANGED <<userVars, contentVars>>

\* POST /users/
UserViewSet_create(actor, data) ==
    /\ req' = Request("users", "POST", actor, Blank, data.role, Blank)
    /\ IF ~UserViewSet_permitted(actor)
       THEN status' = Refused(actor) /\ UNCHANGED userVars
       ELSE IF ~UserSerializer_is_valid(data, Anonymous, FALSE)
       THEN status' = HTTP_400_BAD_REQUEST /\ UNCHANGED userVars
       ELSE /\ nextUid <= MaxUid
            /\ users' = [u \in Uids \cup {nextUid} |->
                            IF u = nextUid THEN UserSerializer_create(data)
                            ELSE users[u]]
            /\ nextUid' = nextUid + 1
            /\ status' = 201
            /\ UNCHANGED <<tokens, refused, signedUp>>
    /\ UNCHANGED contentVars

\* PUT and PATCH /users/{username}/
UserViewSet_update(actor, method, name, data) ==
    /\ req' = Request("users", method, actor, Blank, data.role, Blank)
    /\ IF ~UserViewSet_permitted(actor)
       THEN status' = Refused(actor) /\ UNCHANGED userVars
       ELSE IF ByUsername(name) = {}
       THEN status' = 404 /\ UNCHANGED userVars
       ELSE \E u \in ByUsername(name) :
              IF ~UserSerializer_is_valid(data, u, method = "PATCH")
              THEN status' = HTTP_400_BAD_REQUEST /\ UNCHANGED userVars
              ELSE /\ users' = [users EXCEPT ![u] = UserSerializer_update(@, data)]
                   /\ status' = HTTP_200_OK
                   /\ UNCHANGED <<nextUid, tokens, refused, signedUp>>
    /\ UNCHANGED contentVars

\* DELETE /users/{username}/
UserViewSet_destroy(actor, name) ==
    /\ req' = Request("users", "DELETE", actor, Blank, Absent, Blank)
    /\ IF ~UserViewSet_permitted(actor)
       THEN status' = Refused(actor) /\ UNCHANGED <<userVars, reviewVars>>
       ELSE IF ByUsername(name) = {}
       THEN status' = 404 /\ UNCHANGED <<userVars, reviewVars>>
       ELSE \E u \in ByUsername(name) :
              /\ users' = Restrict(users, Uids \ {u})
              /\ tokens' = tokens \ {u}
              /\ refused' = refused \ {u}
              /\ signedUp' = signedUp \ {u}
              /\ reviews' = Restrict(reviews, ReviewsWithoutAuthor(u))
              /\ comments' = Restrict(comments,
                                      CommentsKept(ReviewsWithoutAuthor(u), {u}))
              /\ status' = 204
              /\ UNCHANGED <<nextUid, nextReview, nextComment, inflight>>
    /\ UNCHANGED catalogVars

\* the role user_data saves with: a plain user's role is forced back to USER
MeRole_as_submitted(row, saved) == saved
MeRole(row, saved) == IF is_user(row) THEN [saved EXCEPT !.role = USER] ELSE saved

\* GET and PATCH /users/me/, permission_classes=(IsAuthenticated,)
user_data(actor, method, data) ==
    /\ req' = Request("me", method, actor, Blank, data.role, Blank)
    /\ IF ~IsAuthenticated(actor)
       THEN status' = Refused(actor) /\ UNCHANGED userVars
       ELSE IF method = "GET"
       THEN status' = HTTP_200_OK /\ UNCHANGED userVars
       ELSE IF ~UserSerializer_is_valid(data, actor, TRUE)
       THEN status' = HTTP_400_BAD_REQUEST /\ UNCHANGED userVars
       ELSE /\ users' = [users EXCEPT
                            ![actor] = MeRole(@, UserSerializer_update(@, data))]
            /\ status' = HTTP_200_OK
            /\ UNCHANGED <<nextUid, tokens, refused, signedUp>>
    /\ UNCHANGED contentVars

----------------------------------------------------------------------------
(* api/views.py: CategoryViewSet, GenreViewSet (ListCreateDestroyMixin) *)

CategorySlugs == {"film"}
GenreSlugs == {"drama"}

\* on_delete=models.SET_NULL of Title.category
TitlesWithoutCategory(slug) ==
    [t \in DOMAIN titles |->
        IF titles[t].category = slug THEN [titles[t] EXCEPT !.category = Absent]
        ELSE titles[t]]

\* the rows of the many-to-many table of Title.genre go with the genre
TitlesWithoutGenre(slug) ==
    [t \in DOMAIN titles |-> [titles[t] EXCEPT !.genre = @ \ {slug}]]

CategoryViewSet_list(actor) ==
    /\ req' = ContentRequest("categories", "GET", actor, 0)
    /\ status' = IF IsAdminOrReadOnly("GET", actor) THEN HTTP_200_OK
                 ELSE Refused(actor)
    /\ UNCHANGED <<userVars, contentVars>>

\* POST /categories/: the UniqueValidator of slug
CategoryViewSet_create(actor, slug) ==
    /\ req' = ContentRequest("categories", "POST", actor, 0)
    /\ IF ~IsAdminOrReadOnly("POST", actor)
       THEN status' = Refused(actor) /\ UNCHANGED categories
       ELSE IF slug \in categories
       THEN status' = HTTP_400_BAD_REQUEST /\ UNCHANGED categories
       ELSE status' = 201 /\ categories' = categories \cup {slug}
    /\ UNCHANGED <<userVars, genres, titles, nextTitle, reviewVars>>

\* DELETE /categories/{slug}/
CategoryViewSet_destroy(actor, slug) ==
    /\ req' = ContentRequest("categories", "DELETE", actor, 0)
    /\ IF ~IsAdminOrReadOnly("DELETE", actor)
       THEN status' = Refused(actor) /\ UNCHANGED <<categories, titles>>
       ELSE IF slug \notin categories
       THEN status' = 404 /\ UNCHANGED <<categories, titles>>
       ELSE /\ status' = 204
            /\ categories' = categories \ {slug}
            /\ titles' = TitlesWithoutCategory(slug)
    /\ UNCHANGED <<userVars, genres, nextTitle, reviewVars>>

GenreViewSet_list(actor) ==
    /\ req' = ContentRequest("genres", "GET", actor, 0)
    /\ status' = IF IsAdminOrReadOnly("GET", actor) THEN HTTP_200_OK
                 ELSE Refused(actor)
    /\ UNCHANGED <<userVars, contentVars>>

GenreViewSet_create(actor, slug) ==
    /\ req' = ContentRequest("genres", "POST", actor, 0)
    /\ IF ~IsAdminOrReadOnly("POST", actor)
       THEN status' = Refused(actor) /\ UNCHANGED genres
       ELSE IF slug \in genres
       THEN status' = HTTP_400_BAD_REQUEST /\ UNCHANGED genres
       ELSE status' = 201 /\ genres' = genres \cup {slug}
    /\ UNCHANGED <<userVars, categories, titles, nextTitle, reviewVars>>

GenreViewSet_destroy(actor, slug) ==
    /\ req' = ContentRequest("genres", "DELETE", actor, 0)
    /\ IF ~IsAdminOrReadOnly("DELETE", actor)
       THEN status' = Refused(actor) /\ UNCHANGED <<genres, titles>>
       ELSE IF slug \notin genres
       THEN status' = 404 /\ UNCHANGED <<genres, titles>>
       ELSE /\ status' = 204
            /\ genres' = genres \ {slug}
            /\ titles' = TitlesWithoutGenre(slug)
    /\ UNCHANGED <<userVars, categories, nextTitle, reviewVars>>

----------------------------------------------------------------------------
(* api/views.py: TitleViewSet, api/serializers.py: TitleCreateSerializer *)

\* timezone.now().year
ThisYear == 2026

TitleYears == {2000, 3000}

validate_year(value) == ~(value > ThisYear)

\* the payloads of POST and PATCH /titles/: category and genre by slug, year
TitlePayloads ==
    {[category |-> c, genre |-> g, year |-> y] :
        c \in CategorySlugs, g \in SUBSET GenreSlugs, y \in TitleYears}

\* SlugRelatedField(queryset=...): the slugs must name rows that exist
TitleCreateSerializer_is_valid(data) ==
    /\ data.category \in categories
    /\ data.genre \subseteq genres
    /\ validate_year(data.year)

\* on_delete=models.CASCADE of Review.title and Comment.review
ReviewsWithoutTitle(t) == {r \in DOMAIN reviews : reviews[r].title # t}

TitleViewSet_read(actor, id) ==
    /\ req' = ContentRequest("titles", "GET", actor, 0)
    /\ status' = IF ~IsAdminOrReadOnly("GET", actor) THEN Refused(actor)
                 ELSE IF id # 0 /\ id \notin DOMAIN titles THEN 404
                 ELSE HTTP_200_OK
    /\ UNCHANGED <<userVars, contentVars>>

TitleViewSet_create(actor, data) ==
    /\ req' = ContentRequest("titles", "POST", actor, 0)
    /\ IF ~IsAdminOrReadOnly("POST", actor)
       THEN status' = Refused(actor) /\ UNCHANGED <<titles, nextTitle>>
       ELSE IF ~TitleCreateSerializer_is_valid(data)
       THEN status' = HTTP_400_BAD_REQUEST /\ UNCHANGED <<titles, nextTitle>>
       ELSE /\ nextTitle <= MaxTitle
            /\ titles' = [t \in DOMAIN titles \cup {nextTitle} |->
                             IF t = nextTitle THEN data ELSE titles[t]]
            /\ nextTitle' = nextTitle + 1
            /\ status' = 201
    /\ UNCHANGED <<userVars, categories, genres, reviewVars>>

TitleViewSet_update(actor, id, data) ==
    /\ req' = ContentRequest("titles", "PATCH", actor, id)
    /\ IF ~IsAdminOrReadOnly("PATCH", actor)
       THEN status' = Refused(actor) /\ UNCHANGED titles
       ELSE IF id \notin DOMAIN titles
       THEN status' = 404 /\ UNCHANGED titles
       ELSE IF ~TitleCreateSerializer_is_valid(data)
       THEN status' = HTTP_400_BAD_REQUEST /\ UNCHANGED titles
       ELSE status' = HTTP_200_OK /\ titles' = [titles EXCEPT ![id] = data]
    /\ UNCHANGED <<userVars, categories, genres, nextTitle, reviewVars>>

TitleViewSet_destroy(actor, id) ==
    /\ req' = ContentRequest("titles", "DELETE", actor, id)
    /\ IF ~IsAdminOrReadOnly("DELETE", actor)
       THEN status' = Refused(actor) /\ UNCHANGED <<titles, reviews, comments>>
       ELSE IF id \notin DOMAIN titles
       THEN status' = 404 /\ UNCHANGED <<titles, reviews, comments>>
       ELSE /\ status' = 204
            /\ titles' = Restrict(titles, DOMAIN titles \ {id})
            /\ reviews' = Restrict(reviews, ReviewsWithoutTitle(id))
            /\ comments' = Restrict(comments, CommentsKept(ReviewsWithoutTitle(id), {}))
    /\ UNCHANGED <<userVars, categories, genres, nextTitle, nextReview,
                   nextComment, inflight>>

----------------------------------------------------------------------------
(* api/views.py: ReviewSet, api/serializers.py: ReviewSerializer *)

Scores == {1, 10, 11}

validate_score(value) == 1 <= value /\ value <= 10

\* Review.objects.filter(title=title, author=user).exists()
ReviewExists(t, author) ==
    \E r \in DOMAIN reviews : reviews[r].title = t /\ reviews[r].author = author

\* ReviewSerializer.validate of a POST, after get_object_or_404 found the
\* title: the author has no review of it yet
ReviewSerializer_validate(actor, t) == ~ReviewExists(t, actor)

\* the response of a POST that does not reach save, 0 when it does:
\* IsAuthenticatedOrReadOnly, then the fields, then ReviewSerializer.validate
ReviewCreateRefusal(actor, t, score) ==
    IF ~IsAuthenticatedOrReadOnly("POST", actor) THEN Refused(actor)
    ELSE IF ~validate_score(score) THEN HTTP_400_BAD_REQUEST
    ELSE IF t \notin DOMAIN titles THEN 404
    ELSE IF ~ReviewSerializer_validate(actor, t) THEN HTTP_400_BAD_REQUEST
    ELSE 0

\* the INSERT into Review: the foreign keys, and the UniqueConstraint
\* unique_review on (title, author)
unique_review_none(row) == TRUE
unique_review(row) == ~ReviewExists(row.title, row.author)

InsertAccepted(row) ==
    /\ row.title \in DOMAIN titles
    /\ row.author \in Uids
    /\ unique_review(row)

\* POST /titles/{title_id}/reviews/ up to the end of is_valid
ReviewSet_create_validate(actor, t, score) ==
    IF ReviewCreateRefusal(actor, t, score) # 0
    THEN /\ req' = ContentRequest("reviews", "POST", actor, 0)
         /\ status' = ReviewCreateRefusal(actor, t, score)
         /\ UNCHANGED <<userVars, contentVars>>
    ELSE /\ Cardinality(inflight) < MaxInflight
         /\ inflight' = inflight \cup {[title |-> t, author |-> actor, score |-> score]}
         /\ UNCHANGED <<userVars, catalogVars, reviews, nextReview, comments,
                        nextComment, req, status>>

\* perform_create of a request that passed is_valid: serializer.save()
ReviewSet_create_save(row) ==
    /\ row \in inflight
    /\ inflight' = inflight \ {row}
    /\ req' = ContentRequest("reviews", "POST", row.author, 0)
    /\ IF InsertAccepted(row)
       THEN /\ nextReview <= MaxReview
            /\ reviews' = [r \in DOMAIN reviews \cup {nextReview} |->
                              IF r = nextReview THEN row ELSE reviews[r]]
            /\ nextReview' = nextReview + 1
            /\ status' = 201
       ELSE /\ status' = 500
            /\ UNCHANGED <<reviews, nextReview>>
    /\ UNCHANGED <<userVars, catalogVars, comments, nextComment>>

\* POST /titles/{title_id}/reviews/ handled with no other request in between
ReviewSet_create(actor, t, score) ==
    /\ req' = ContentRequest("reviews", "POST", actor, 0)
    /\ IF ReviewCreateRefusal(actor, t, score) # 0
       THEN /\ status' = ReviewCreateRefusal(actor, t, score)
            /\ UNCHANGED <<reviews, nextReview>>
       ELSE LET row == [title |-> t, author |-> actor, score |-> score] IN
            IF InsertAccepted(row)
            THEN /\ nextReview <= MaxReview
                 /\ reviews' = [r \in DOMAIN reviews \cup {nextReview} |->
                                   IF r = nextReview THEN row ELSE reviews[r]]
                 /\ nextReview' = nextReview + 1
                 /\ status' = 201
            ELSE /\ status' = 500
                 /\ UNCHANGED <<reviews, nextReview>>
    /\ UNCHANGED <<userVars, catalogVars, comments, nextComment, inflight>>

\* get_queryset and get_object: the title, then the review among its reviews
ReviewFound(t, id) ==
    t \in DOMAIN titles /\ id \in DOMAIN reviews /\ reviews[id].title = t

\* IsAuthenticatedOrReadOnly & IsAuthorOrStaffOrReadOnly, 0 when both pass
ObjectRefusal(method, actor, found, author) ==
    IF ~IsAuthenticatedOrReadOnly(method, actor) THEN Refused(actor)
    ELSE IF ~found THEN 404
    ELSE IF ~IsAuthorOrStaffOrReadOnly(method, actor, author) THEN Refused(actor)
    ELSE 0

ReviewRefusal(method, actor, t, id) ==
    ObjectRefusal(method, actor, ReviewFound(t, id),
                  IF id \in DOMAIN reviews THEN reviews[id].author ELSE Anonymous)

\* GET /titles/{title_id}/reviews/ (id = 0) and /titles/{title_id}/reviews/{id}/
ReviewSet_read(actor, t, id) ==
    /\ req' = ContentRequest("reviews", "GET", actor, 0)
    /\ status' = IF t \notin DOMAIN titles THEN 404
                 ELSE IF id # 0 /\ ~ReviewFound(t, id) THEN 404
                 ELSE HTTP_200_OK
    /\ UNCHANGED <<userVars, contentVars>>

\* PATCH /titles/{title_id}/reviews/{id}/
ReviewSet_update(actor, t, id, score) ==
    /\ req' = ContentRequest("reviews", "PATCH", actor, id)
    /\ IF ReviewRefusal("PATCH", actor, t, id) # 0
       THEN status' = ReviewRefusal("PATCH", actor, t, id) /\ UNCHANGED reviews
       ELSE IF ~validate_score(score)
       THEN status' = HTTP_400_BAD_REQUEST /\ UNCHANGED reviews
       ELSE /\ status' = HTTP_200_OK
            /\ reviews' = [reviews EXCEPT ![id].score = score]
    /\ UNCHANGED <<userVars, catalogVars, nextReview, comments, nextComment,
                   inflight>>

\* DELETE /titles/{title_id}/reviews/{id}/
ReviewSet_destroy(actor, t, id) ==
    /\ req' = ContentRequest("reviews", "DELETE", actor, id)
    /\ IF ReviewRefusal("DELETE", actor, t, id) # 0
       THEN /\ status' = ReviewRefusal("DELETE", actor, t, id)
            /\ UNCHANGED <<reviews, comments>>
       ELSE /\ status' = 204
            /\ reviews' = Restrict(reviews, DOMAIN reviews \ {id})
            /\ comments' = Restrict(comments,
                                    CommentsKept(DOMAIN reviews \ {id}, {}))
    /\ UNCHANGED <<userVars, catalogVars, nextReview, nextComment, inflight>>

----------------------------------------------------------------------------
(* api/views.py: CommentViewSet, api/serializers.py: CommentSerializer *)

CommentTexts == {"", "nice", "poor"}

\* text is a required TextField: a blank text is refused
CommentSerializer_is_valid(text) == text # ""

CommentFound(r, id) ==
    r \in DOMAIN reviews /\ id \in DOMAIN comments /\ comments[id].review = r

CommentRefusal(method, actor, r, id) ==
    ObjectRefusal(method, actor, CommentFound(r, id),
                  IF id \in DOMAIN comments THEN comments[id].author ELSE Anonymous)

\* GET .../reviews/{review_id}/comments/ (id = 0) and .../comments/{id}/
CommentViewSet_read(actor, r, id) ==
    /\ req' = ContentRequest("comments", "GET", actor, 0)
    /\ status' = IF r \notin DOMAIN reviews THEN 404
                 ELSE IF id # 0 /\ ~CommentFound(r, id) THEN 404
                 ELSE HTTP_200_OK
    /\ UNCHANGED <<userVars, contentVars>>

\* POST .../reviews/{review_id}/comments/
CommentViewSet_create(actor, r, text) ==
    /\ req' = ContentRequest("comments", "POST", actor, 0)
    /\ IF ~IsAuthenticatedOrReadOnly("POST", actor)
       THEN status' = Refused(actor) /\ UNCHANGED <<comments, nextComment>>
       ELSE IF ~CommentSerializer_is_valid(text)
       THEN status' = HTTP_400_BAD_REQUEST /\ UNCHANGED <<comments, nextComment>>
       ELSE IF r \notin DOMAIN reviews
       THEN status' = 404 /\ UNCHANGED <<comments, nextComment>>
       ELSE /\ nextComment <= MaxComment
            /\ comments' = [c \in DOMAIN comments \cup {nextComment} |->
                               IF c = nextComment
                               THEN [review |-> r, author |-> actor, text |-> text]
                               ELSE comments[c]]
            /\ nextComment' = nextComment + 1
            /\ status' = 201
    /\ UNCHANGED <<userVars, catalogVars, reviews, nextReview, inflight>>

\* PATCH .../comments/{id}/
CommentViewSet_update(actor, r, id, text) ==
    /\ req' = ContentRequest("comments", "PATCH", actor, id)
    /\ IF CommentRefusal("PATCH", actor, r, id) # 0
       THEN status' = CommentRefusal("PATCH", actor, r, id) /\ UNCHANGED comments
       ELSE IF ~CommentSerializer_is_valid(text)
       THEN status' = HTTP_400_BAD_REQUEST /\ UNCHANGED comments
       ELSE /\ status' = HTTP_200_OK
            /\ comments' = [comments EXCEPT ![id].text = text]
    /\ UNCHANGED <<userVars, catalogVars, reviews, nextReview, nextComment,
                   inflight>>

\* DELETE .../comments/{id}/
CommentViewSet_destroy(actor, r, id) ==
    /\ req' = ContentRequest("comments", "DELETE", actor, id)
    /\ IF CommentRefusal("DELETE", actor, r, id) # 0
       THEN status' = CommentRefusal("DELETE", actor, r, id) /\ UNCHANGED comments
       ELSE /\ status' = 204
            /\ comments' = Restrict(comments, DOMAIN comments \ {id})
    /\ UNCHANGED <<userVars, catalogVars, reviews, nextReview, nextComment,
                   inflight>>

----------------------------------------------------------------------------
(* Specifications *)

\* the account the deployment starts with: a user who signed up and was then
\* given the role admin or the staff / superuser flags by the operator
\* (manage.py, Django admin), holding the code signup generated for it
BootProfiles ==
    {[role |-> ADMIN, is_staff |-> FALSE, is_superuser |-> FALSE],
     [role |-> USER, is_staff |-> TRUE, is_superuser |-> TRUE]}

BootUser(p) ==
    [NewUser(NameAdm, "a@x", p.role, Repeat("A", CodeLen)) EXCEPT
        !.is_staff = p.is_staff, !.is_superuser = p.is_superuser]

InitContent ==
    /\ categories = {}
    /\ genres = {}
    /\ titles = <<>>
    /\ nextTitle = 1
    /\ reviews = <<>>
    /\ nextReview = 1
    /\ comments = <<>>
    /\ nextComment = 1
    /\ inflight = {}

Init ==
    /\ \E p \in BootProfiles : users = (1 :> BootUser(p))
    /\ nextUid = 2
    /\ tokens = {}
    /\ refused = {}
    /\ signedUp = {1}
    /\ InitContent
    /\ req = Request("none", "GET", Anonymous, Blank, Absent, Blank)
    /\ status = HTTP_200_OK

SignupRequest ==
    \E n \in SignupNames, e \in Emails, c \in GeneratedCodes :
        APISendCode_post(n, e, c)

TokenRequest ==
    \E n \in SubmittedNames, c \in SubmittedCodes : APISendToken_post(n, c)

\* a token request of a client that submits the code it was mailed
TokenRequestMailed ==
    \E u \in Uids : APISendToken_post(users[u].username, users[u].confirmation_code)

UsersRequest ==
    \/ \E a \in Actors, n \in Usernames \cup {Blank} : UserViewSet_read(a, n)
    \/ \E a \in Actors, d \in FullPayloads \cup {NoData} : UserViewSet_create(a, d)
    \/ \E a \in Actors, n \in Usernames, d \in PartPayloads :
          UserViewSet_update(a, "PATCH", n, d)
    \/ \E a \in Actors, n \in Usernames : UserViewSet_destroy(a, n)

MeRequest ==
    \/ \E a \in Actors : user_data(a, "GET", NoData)
    \/ \E a \in Actors, d \in PartPayloads : user_data(a, "PATCH", d)

\* the signup and token endpoints, with the user table administered
NextAuth ==
    \/ SignupRequest
    \/ TokenRequest
    \/ \E a \in Actors, d \in FullPayloads : UserViewSet_create(a, d)
    \/ \E a \in Actors, n \in Usernames : UserViewSet_destroy(a, n)

SpecAuth == Init /\ [][NextAuth]_vars

\* the user-management endpoints
NextUsers ==
    \/ SignupRequest
    \/ TokenRequestMailed
    \/ UsersRequest
    \/ MeRequest

SpecUsers == Init /\ [][NextUsers]_vars

\* a deployment with three users: the boot account, which holds no token, the
\* plain user bob, and eve, who is a plain user, a moderator, a superuser who is
\* neither staff nor admin by role, an admin by role, or a staff member
MemberProfiles ==
    {[role |-> USER, is_staff |-> FALSE, is_superuser |-> FALSE],
     [role |-> MODERATOR, is_staff |-> FALSE, is_superuser |-> FALSE],
     [role |-> USER, is_staff |-> FALSE, is_superuser |-> TRUE],
     [role |-> ADMIN, is_staff |-> FALSE, is_superuser |-> FALSE],
     [role |-> USER, is_staff |-> TRUE, is_superuser |-> FALSE]}

InitMembers ==
    /\ \E q \in MemberProfiles :
          users = <<BootUser([role |-> ADMIN, is_staff |-> FALSE,
                              is_superuser |-> FALSE]),
                    NewUser(NameBob, "b@x", USER, Repeat("0", CodeLen)),
                    [NewUser(NameEve, "e@x", q.role, Repeat("A", CodeLen)) EXCEPT
                        !.is_staff = q.is_staff, !.is_superuser = q.is_superuser]>>
    /\ nextUid = 4
    /\ tokens = {2, 3}
    /\ refused = {}
    /\ signedUp = {1, 2, 3}
    /\ req = Request("none", "GET", Anonymous, Blank, Absent, Blank)
    /\ status = HTTP_200_OK

\* the catalogue endpoints, on an empty catalogue
InitCatalog == InitMembers /\ InitContent

TitleIds == 1 .. MaxTitle
ReviewIds == 1 .. MaxReview
CommentIds == 1 .. MaxComment

CategoryRequest ==
    \/ \E a \in Actors : CategoryViewSet_list(a)
    \/ \E a \in Actors, c \in CategorySlugs : CategoryViewSet_create(a, c)
    \/ \E a \in Actors, c \in CategorySlugs : CategoryViewSet_destroy(a, c)

GenreRequest ==
    \/ \E a \in Actors : GenreViewSet_list(a)
    \/ \E a \in Actors, g \in GenreSlugs : GenreViewSet_create(a, g)
    \/ \E a \in Actors, g \in GenreSlugs : GenreViewSet_destroy(a, g)

TitleRequest ==
    \/ \E a \in Actors, t \in TitleIds \cup {0} : TitleViewSet_read(a, t)
    \/ \E a \in Actors, d \in TitlePayloads : TitleViewSet_create(a, d)
    \/ \E a \in Actors, t \in TitleIds, d \in TitlePayloads :
          TitleViewSet_update(a, t, d)
    \/ \E a \in Actors, t \in TitleIds : TitleViewSet_destroy(a, t)

NextCatalog ==
    \/ CategoryRequest
    \/ GenreRequest
    \/ TitleRequest

SpecCatalog == InitCatalog /\ [][NextCatalog]_vars

\* the review endpoints, on a catalogue that holds one title
InitReviews ==
    /\ InitMembers
    /\ categories = CategorySlugs
    /\ genres = {}
    /\ titles = <<[category |-> "film", genre |-> {}, year |-> 2000]>>
    /\ nextTitle = 2
    /\ reviews = <<>>
    /\ nextReview = 1
    /\ comments = <<>>
    /\ nextComment = 1
    /\ inflight = {}

ReviewChange ==
    \/ \E a \in Actors, t \in TitleIds, r \in ReviewIds, sc \in Scores :
          ReviewSet_update(a, t, r, sc)
    \/ \E a \in Actors, t \in TitleIds, r \in ReviewIds : ReviewSet_destroy(a, t, r)

\* review create requests handled concurrently: validation and save interleave
\* with every other request
NextReviewRace ==
    \/ \E a \in Actors, t \in TitleIds, sc \in Scores :
          ReviewSet_create_validate(a, t, sc)
    \/ \E row \in inflight : ReviewSet_create_save(row)
    \/ ReviewChange
    \/ \E a \in Actors, t \in TitleIds : TitleViewSet_destroy(a, t)
    \/ \E a \in Actors, n \in {NameBob} : UserViewSet_destroy(a, n)

SpecReviewRace == InitReviews /\ [][NextReviewRace]_vars

CommentRequest ==
    \/ \E a \in Actors, r \in ReviewIds, c \in CommentIds \cup {0} :
          CommentViewSet_read(a, r, c)
    \/ \E a \in Actors, r \in ReviewIds, x \in CommentTexts :
          CommentViewSet_create(a, r, x)
    \/ \E a \in Actors, r \in ReviewIds, c \in CommentIds, x \in CommentTexts :
          CommentViewSet_update(a, r, c, x)
    \/ \E a \in Actors, r \in ReviewIds, c \in CommentIds :
          CommentViewSet_destroy(a, r, c)

\* the review and comment endpoints, one request at a time
NextReviews ==
    \/ \E a \in Actors, t \in TitleIds, r \in ReviewIds \cup {0} :
          ReviewSet_read(a, t, r)
    \/ \E a \in Actors, t \in TitleIds, sc \in Scores : ReviewSet_create(a, t, sc)
    \/ ReviewChange
    \/ CommentRequest

SpecReviews == InitReviews /\ [][NextReviews]_vars

\* every endpoint
Next ==
    \/ SignupRequest
    \/ TokenRequest
    \/ UsersRequest
    \/ MeRequest
    \/ CategoryRequest
    \/ GenreRequest
    \/ TitleRequest
    \/ NextReviewRace
    \/ NextReviews

Spec == Init /\ [][Next]_vars

----------------------------------------------------------------------------
(* Properties of the signup and token endpoints, checked under SpecAuth *)

TokenRequested == req.op = "token"

\* the users whose username is the submitted one, as submitted and trimmed
NamedExactly == ByUsername(req.name)
Named == ByUsername(Strip(req.name))

\* C1, as stated: for every username and every submitted code a token is issued
\* if and only if the user exists and the submitted code is exactly the stored
\* one; a differing code gets 400 and an unknown username gets 404.
C1_Original ==
    TokenRequested =>
        LET exact == \E u \in NamedExactly : req.code = users[u].confirmation_code
        IN  /\ status = 200 <=> exact
            /\ NamedExactly # {} /\ ~exact => status = 400
            /\ NamedExactly = {} => status = 404

\* C1, amended: both fields are compared trimmed of surrounding white space. A
\* token request whose fields pass validation (trimmed, the username is not
\* blank and at most 40 characters long, the code not blank and at most 10) is
\* issued a token if and only if a user with the trimmed username exists and
\* the trimmed code equals the stored one; with a differing code it gets 400,
\* with an unknown username 404; a request whose fields fail validation gets
\* 400, whether the user exists or not; no refused request issues a token.
C1_TokenIffTrimmedCodeMatches ==
    /\ [](TokenRequested =>
            LET trimmed == Strip(req.code)
                wellFormed == /\ Strip(req.name) # <<>>
                              /\ Len(Strip(req.name)) <= 40
                              /\ trimmed # <<>>
                              /\ Len(trimmed) <= 10
                match == \E u \in Named : trimmed = users[u].confirmation_code
            IN  /\ status = 200 <=> wellFormed /\ match
                /\ wellFormed /\ Named # {} /\ ~match => status = 400
                /\ wellFormed /\ Named = {} => status = 404
                /\ ~wellFormed => status = 400
                /\ status = 200 => Named # {} /\ Named \subseteq tokens)
    /\ [][req'.op = "token" /\ status' # 200 => tokens' = tokens]_vars

\* C1 witness: a token was issued for a code submitted with white space around it
C1_Witness ==
    /\ TokenRequested
    /\ status = 200
    /\ req.code # Strip(req.code)
    /\ Named # {} /\ Named \subseteq tokens

\* C2, as stated: a signup for a username that exists, with the same e-mail
\* address, succeeds and replaces the stored confirmation code by the new one
\* (so the old code stops authenticating and the new one starts to).
C2_Original ==
    [][req'.op = "signup" =>
        \A u \in Uids, c \in GeneratedCodes :
            APISendCode_post(users[u].username, users[u].email, c) =>
                /\ status' = 200
                /\ u \in DOMAIN users'
                /\ users'[u].confirmation_code = c]_vars

\* C9: a token request, granted or refused, leaves the user table as it was,
\* and the code signup issued to a user obtains a token in every state,
\* whatever token requests were made before.
C9_TokenRequestKeepsCodes ==
    /\ [][req'.op = "token" => users' = users /\ signedUp' = signedUp]_vars
    /\ [](\A u \in Uids :
            users[u].confirmation_code \in GeneratedCodes =>
                TokenStatus(users[u].username, users[u].confirmation_code) = 200)

\* C9 witness: a code is granted a token after a token was already issued to
\* its user and after a request for that user was refused
C9_Witness ==
    /\ TokenRequested
    /\ status = 200
    /\ \E u \in Named : u \in refused /\ u \in tokens

\* C10: tokens are issued only to users whose confirmation code signup wrote;
\* a user whose stored code is blank is refused whatever code is submitted,
\* the empty and the white-space-only ones included.
C10_BlankCodeNeverAuthenticates ==
    /\ tokens \subseteq signedUp
    /\ \A u \in Uids :
          /\ u \in signedUp <=> users[u].confirmation_code # Blank
          /\ users[u].confirmation_code = Blank =>
                \A c \in SubmittedCodes : TokenStatus(users[u].username, c) # 200
    /\ TokenRequested /\ status = 200 =>
          \A u \in Named : users[u].confirmation_code # Blank

\* C10 witness: a token request with a white-space-only code for a user an
\* administrator created, whose code is blank, was refused
C10_Witness ==
    /\ TokenRequested
    /\ req.code = <<Space>>
    /\ status = 400
    /\ \E u \in Named : users[u].confirmation_code = Blank /\ u \notin tokens

----------------------------------------------------------------------------
(* Properties of the user endpoints, checked under SpecUsers *)

\* the requesting user is not admin-privileged before the request
ActorNotAdmin(actor) == actor = Anonymous \/ ~is_admin(users[actor])

\* C4, as stated: no request of an actor who is not admin-privileged changes a
\* stored role to a value other than "user" (nor creates a user with one).
C4_Original ==
    [][ActorNotAdmin(req'.actor) =>
        \A u \in DOMAIN users' :
            \/ users'[u].role = USER
            \/ u \in Uids /\ users'[u].role = users[u].role]_vars

\* the step is PATCH /users/me/ by a user whose role is "user"
PlainMePatch == req'.op = "me" /\ req'.method = "PATCH" /\ req'.actor # Anonymous
                /\ users[req'.actor].role = USER

\* C5, as stated: PATCH /users/me/ of a user whose role is "user" succeeds
\* with any payload and leaves the role "user".
C5_Original ==
    [][PlainMePatch => status' = 200 /\ users'[req'.actor].role = USER]_vars

\* C5, amended: PATCH /users/me/ of a user whose role is "user", with a payload
\* that passes validation (a role among the three choices, a username and an
\* e-mail address no other user holds), succeeds, applies the submitted
\* username and e-mail address and stores the role "user"; a payload that fails
\* validation gets 400 and changes nothing; the role is "user" either way.
C5_PlainMePatchKeepsRoleUser ==
    [][PlainMePatch =>
        LET a == req'.actor IN
        /\ users'[a].role = USER
        /\ \A d \in PartPayloads :
              user_data(a, "PATCH", d) =>
                 LET ok == /\ d.role \in {Absent, "user", "admin", "moderator"}
                           /\ \A o \in Uids \ {a} :
                                 /\ users[o].username # d.username
                                 /\ users[o].email # d.email
                 IN  IF ok
                     THEN /\ status' = 200
                          /\ users'[a].username =
                                IF d.username = AbsentName THEN users[a].username
                                ELSE d.username
                          /\ users'[a].email =
                                IF d.email = Absent THEN users[a].email ELSE d.email
                          /\ \A o \in Uids \ {a} : users'[o] = users[o]
                     ELSE status' = 400 /\ users' = users]_vars

\* C5 witness: a plain user sent PATCH /users/me/ with the role admin, the
\* request succeeded and the stored role is "user"
C5_Witness ==
    /\ req.op = "me" /\ req.method = "PATCH" /\ req.role = ADMIN
    /\ status = 200
    /\ req.actor \in Uids
    /\ users[req.actor].role = USER
    /\ ~users[req.actor].is_staff /\ ~users[req.actor].is_superuser

UsersRequested == req'.op = "users"
Granted == status' \notin {401, 403}

\* C6, as stated: the user-management endpoints grant access only to an
\* identity whose role is admin.
C6_Original ==
    [][UsersRequested /\ Granted =>
        req'.actor # Anonymous /\ users[req'.actor].role = ADMIN]_vars

\* C6, amended: the user-management endpoints grant access, for every method,
\* only to an authenticated identity that is admin-privileged (role admin, or
\* is_staff, or is_superuser); every other identity is refused, and a refused
\* request changes no user.
C6_UsersOnlyForAdminPrivileged ==
    [][UsersRequested =>
        /\ Granted =>
              /\ req'.actor # Anonymous
              /\ \/ users[req'.actor].role = ADMIN
                 \/ users[req'.actor].is_staff
                 \/ users[req'.actor].is_superuser
        /\ ~Granted => users' = users]_vars

\* C6 witness: a staff member whose role is "user" was granted a user-management
\* request that changed the table
C6_Witness ==
    /\ req.op = "users" /\ req.method = "POST"
    /\ status = 201
    /\ req.actor \in Uids
    /\ users[req.actor].role = USER /\ users[req.actor].is_staff

\* C11, as stated: in every reachable state, after any sequence of signup,
\* user-management (create and update on /users/) and self-edit (PATCH
\* /users/me/) requests, no stored user has the username "me".
C11_Original == \A u \in Uids : users[u].username # <<"m", "e">>

----------------------------------------------------------------------------
(* Properties of review creation, checked under SpecReviewRace *)

ReviewPost == req'.op = "reviews" /\ req'.method = "POST"

\* C3: the table never holds two reviews of one title by one author, also when
\* create requests of one author for one title are handled concurrently; a
\* create request for a pair that has a review is answered with an error (400
\* from validation, 500 from the constraint at save) and adds no row; update
\* and delete requests never change the title or the author of a review.
C3_OneReviewPerTitleAndAuthor ==
    /\ [](\A r1 \in DOMAIN reviews, r2 \in DOMAIN reviews :
            reviews[r1].title = reviews[r2].title
            /\ reviews[r1].author = reviews[r2].author => r1 = r2)
    /\ [][/\ ReviewPost =>
              /\ \A row \in inflight :
                    ReviewSet_create_save(row)
                    /\ ReviewExists(row.title, row.author) =>
                        status' \in {400, 500} /\ reviews' = reviews
              /\ \A t \in TitleIds, sc \in Scores :
                    req'.actor # Anonymous
                    /\ ReviewExists(t, req'.actor)
                    /\ ReviewSet_create_validate(req'.actor, t, sc) =>
                        status' \in {400, 500} /\ reviews' = reviews
                        /\ inflight' = inflight
          /\ \A r \in DOMAIN reviews \cap DOMAIN reviews' :
                /\ reviews'[r].title = reviews[r].title
                /\ reviews'[r].author = reviews[r].author]_vars

\* C3 witness: of two create requests of one author for one title that both
\* passed validation, the second to save was answered 500 and the first's
\* review is the only one of the pair
C3_Witness ==
    /\ req.op = "reviews" /\ req.method = "POST"
    /\ status = 500
    /\ req.actor \in Uids
    /\ 1 \in DOMAIN titles
    /\ Cardinality({r \in DOMAIN reviews :
                      reviews[r].title = 1 /\ reviews[r].author = req.actor}) = 1

----------------------------------------------------------------------------
(* Properties of the catalogue endpoints, checked under SpecCatalog *)

CatalogRequested == req'.op \in {"categories", "genres", "titles"}

\* C7: on the category, genre and title endpoints a safe request is permitted
\* for every identity, a mutating request is permitted if and only if the
\* identity is authenticated and has the role admin or is staff; a refused
\* request changes no category, genre or title.
C7_CatalogAdminOrReadOnly ==
    [][CatalogRequested =>
        /\ req'.method \in {"GET", "HEAD", "OPTIONS"} => Granted
        /\ req'.method \in {"POST", "PATCH", "DELETE"} =>
              (Granted <=>
                  /\ req'.actor # Anonymous
                  /\ \/ users[req'.actor].role = "admin"
                     \/ users[req'.actor].is_staff)
        /\ ~Granted => /\ categories' = categories
                       /\ genres' = genres
                       /\ titles' = titles]_vars

\* C7 witness: a staff member whose role is "user" created a title
C7_Witness ==
    /\ req.op = "titles" /\ req.method = "POST"
    /\ status = 201
    /\ req.actor \in Uids
    /\ users[req.actor].role = USER /\ users[req.actor].is_staff
    /\ titles # <<>>

----------------------------------------------------------------------------
(* Properties of the review and comment endpoints, checked under SpecReviews *)

\* the step is a PATCH or DELETE of a review or comment that exists
Mutation ==
    /\ req'.method \in {"PATCH", "DELETE"}
    /\ \/ req'.op = "reviews" /\ req'.id \in DOMAIN reviews
       \/ req'.op = "comments" /\ req'.id \in DOMAIN comments

TargetAuthor ==
    IF req'.op = "reviews" THEN reviews[req'.id].author ELSE comments[req'.id].author

Performed == status' \in {200, 204}

PlainUser(actor) ==
    /\ actor # Anonymous
    /\ users[actor].role = USER
    /\ ~users[actor].is_staff
    /\ ~users[actor].is_superuser

SafeAlwaysPermitted ==
    req'.op \in {"reviews", "comments"} /\ req'.method = "GET" => Granted

PlainUserKeptOut ==
    Mutation /\ PlainUser(req'.actor) /\ TargetAuthor # req'.actor =>
        ~Performed /\ reviews' = reviews /\ comments' = comments

\* C8, as stated: safe requests are always permitted; a PATCH or DELETE of a
\* review or comment is performed only for an authenticated identity that is
\* its author, or is staff, or has the role admin, or has the role moderator;
\* a plain user never changes a review or comment of another author by it.
C8_Original ==
    [][/\ SafeAlwaysPermitted
       /\ Mutation /\ Performed =>
             /\ req'.actor # Anonymous
             /\ \/ req'.actor = TargetAuthor
                \/ users[req'.actor].is_staff
                \/ users[req'.actor].role = ADMIN
                \/ users[req'.actor].role = MODERATOR
       /\ PlainUserKeptOut]_vars

\* C8, amended: as stated, with the superuser added to the identities a
\* mutating request is performed for (the author, staff, a superuser, the role
\* admin, the role moderator); a request of a plain user (role "user", neither
\* staff nor superuser) addressed to a review or comment of another author is
\* refused and changes no review and no comment.
C8_ReviewsAuthorOrPrivileged ==
    [][/\ SafeAlwaysPermitted
       /\ Mutation /\ Performed =>
             /\ req'.actor # Anonymous
             /\ \/ req'.actor = TargetAuthor
                \/ users[req'.actor].is_staff
                \/ users[req'.actor].is_superuser
                \/ users[req'.actor].role = ADMIN
                \/ users[req'.actor].role = MODERATOR
       /\ PlainUserKeptOut]_vars

\* C8 witness: a moderator changed the review of another author
C8_Witness ==
    /\ req.op = "reviews" /\ req.method = "PATCH"
    /\ status = 200
    /\ req.actor \in Uids
    /\ req.id \in DOMAIN reviews
    /\ reviews[req.id].author # req.actor
    /\ users[req.actor].role = MODERATOR
    /\ ~users[req.actor].is_staff /\ ~users[req.actor].is_superuser

====
